---- MODULE Spec2Model ----
(***************************************************************************)
(* A model of libnotcurses-sys' NcVisualOptionsBuilder                     *)
(* (src/visual/options/builder.rs) and of the static inline functions of   *)
(* src/notcurses.rs.                                                       *)
(*                                                                         *)
(* The builder is a record that every setter consumes and returns; the     *)
(* setters are operators translated one by one from the source, and the    *)
(* actions of Spec apply them to the builder in any order and with any     *)
(* argument.  The history variables (lastV, lastH, ...) remember the calls *)
(* made, so that the builder's contents can be compared with them.         *)
(***************************************************************************)
EXTENDS Integers, Sequences, FiniteSets, TLC

(***************************************************************************)
(* Bounds of the model.                                                    *)
(***************************************************************************)
\* coordinates given to y, x and yx are -1 .. MaxOffset
MaxOffset == 0
\* the regions and cell offsets given to region and cell_offset start at 0 .. MaxDim
MaxDim == 0
\* the colors given to transcolor are 0 .. MaxRgba
MaxRgba == 1
\* the planes that exist are 1 .. MaxPlane
MaxPlane == 1
\* extents given to notcurses_align are 0 .. MaxExtent
MaxExtent == 80
\* setter calls made on the fresh builder before two orders are compared
MaxCalls == 2
\* the input events have the ids 97 .. 96 + MaxKey ('a', 'b', ...)
MaxKey == 2
\* at most MaxPending input events are ready at a time
MaxPending == 2
\* the terminal has 1 .. MaxTerm rows and as many columns
MaxTerm == 3
\* the extreme extents are those within MaxNear of 0, of i32::MIN and of
\* i32::MAX
MaxNear == 2

(***************************************************************************)
(* Option<T>: None is the empty sequence, Some(v) a sequence of one.       *)
(***************************************************************************)
None == << >>

Some(v) == << v >>

(***************************************************************************)
(* The flag bits of NcVisualOptions, the alignments, the scales and the    *)
(* blitters.                                                               *)
(***************************************************************************)
NODEGRADE == 1

BLEND == 2

HORALIGNED == 4

VERALIGNED == 8

ADDALPHA == 16

CHILDPLANE == 32

NOINTERPOLATE == 64

NCALIGN_LEFT == 1

NCALIGN_CENTER == 2

NCALIGN_RIGHT == 3

NCSCALE_NONE == 0

NCSCALE_SCALE == 1

NCBLIT_DEFAULT == 0

NCBLIT_PIXEL == 6

AllFlags == {NODEGRADE, BLEND, HORALIGNED, VERALIGNED, ADDALPHA, CHILDPLANE, NOINTERPOLATE}

NcAligns == {NCALIGN_LEFT, NCALIGN_CENTER, NCALIGN_RIGHT}

NcScales == {NCSCALE_NONE, NCSCALE_SCALE}

NcBlitters == {NCBLIT_DEFAULT, NCBLIT_PIXEL}

NcOffsets == (0 - 1) .. MaxOffset

NcRgbas == 0 .. MaxRgba

Planes == 1 .. MaxPlane

\* (beg_y, beg_x, len_y, len_x): four different numbers, so that no two
\* components can be taken for one another
Regions == { << d, d + 1, d + 2, d + 3 >> : d \in 0 .. MaxDim }

\* (y, x)
CellOffsets == { << d, d + 1 >> : d \in 0 .. MaxDim }

(***************************************************************************)
(* u32 flag arithmetic: flags & bit != 0, flags |= bit, flags &= !bit,     *)
(* for a bit that is a power of two.                                       *)
(***************************************************************************)
HasFlag(flags, bit) == (flags \div bit) % 2 = 1

SetFlag(flags, bit) == IF HasFlag(flags, bit) THEN flags ELSE flags + bit

ClearFlag(flags, bit) == IF HasFlag(flags, bit) THEN flags - bit ELSE flags

\* the range of an i32 (NcOffset, and the extents of notcurses_align)
I32_MAX == 2147483647

I32_MIN == (0 - I32_MAX) - 1

\* `align as NcOffset`: the cast of a u32 to an i32
AsNcOffset(v) == IF v > I32_MAX THEN ((v - I32_MAX) - 1) + I32_MIN ELSE v

(***************************************************************************)
(* #[derive(Default)] struct NcVisualOptionsBuilder                        *)
(***************************************************************************)
NcVisualOptionsBuilder ==
    [ plane           |-> None,
      scale           |-> 0,
      y               |-> 0,
      x               |-> 0,
      region_yx_lenyx |-> None,
      cell_offset_yx  |-> None,
      blitter         |-> 0,
      flags           |-> 0,
      transcolor      |-> 0 ]

(***************************************************************************)
(* The setters.                                                            *)
(***************************************************************************)
plane(self, p) == [self EXCEPT !.plane = Some(p)]

\* child as a slip would have it: child(true) is not taken without a plane
\* ("If true, a plane must also be provided")
child_needs_plane(self, c) ==
    IF c /\ self.plane # None
    THEN [self EXCEPT !.flags = SetFlag(self.flags, CHILDPLANE)]
    ELSE IF c THEN self
    ELSE [self EXCEPT !.flags = ClearFlag(self.flags, CHILDPLANE)]

child(self, c) ==
    IF c THEN [self EXCEPT !.flags = SetFlag(self.flags, CHILDPLANE)]
         ELSE [self EXCEPT !.flags = ClearFlag(self.flags, CHILDPLANE)]

parent(self, p) ==
    [self EXCEPT !.plane = Some(p), !.flags = SetFlag(self.flags, CHILDPLANE)]

\* no_plane as a slip would have it: the CHILDPLANE flag is left as it is
no_plane_keeps_flag(self) == [self EXCEPT !.plane = None]

no_plane(self) ==
    [self EXCEPT !.plane = None, !.flags = ClearFlag(self.flags, CHILDPLANE)]

scale(self, s) == [self EXCEPT !.scale = s]

y(self, v) ==
    [self EXCEPT !.y = v, !.flags = ClearFlag(self.flags, VERALIGNED)]

x(self, v) ==
    [self EXCEPT !.x = v, !.flags = ClearFlag(self.flags, HORALIGNED)]

yx(self, v, h) ==
    [self EXCEPT !.y = v, !.x = h,
                 !.flags = ClearFlag(ClearFlag(self.flags, VERALIGNED), HORALIGNED)]

\* valign as a slip would have it: the flag is set, the alignment is not stored
valign_keeps_y(self, a) ==
    [self EXCEPT !.flags = SetFlag(self.flags, VERALIGNED)]

valign(self, a) ==
    [self EXCEPT !.y = AsNcOffset(a), !.flags = SetFlag(self.flags, VERALIGNED)]

\* halign as its comment has it ("Sets the x alignment and the VERALIGNED flag")
halign_sets_veraligned(self, a) ==
    [self EXCEPT !.x = AsNcOffset(a), !.flags = SetFlag(self.flags, VERALIGNED)]

halign(self, a) ==
    [self EXCEPT !.x = AsNcOffset(a), !.flags = SetFlag(self.flags, HORALIGNED)]

align(self, v, h) ==
    [self EXCEPT !.y = AsNcOffset(v), !.x = AsNcOffset(h),
                 !.flags = SetFlag(SetFlag(self.flags, VERALIGNED), HORALIGNED)]

blitter(self, b) == [self EXCEPT !.blitter = b]

pixel(self) == [self EXCEPT !.blitter = NCBLIT_PIXEL]

\* color is None or Some(c)
transcolor(self, color) ==
    IF color # None
    THEN [self EXCEPT !.transcolor = color[1],
                      !.flags = SetFlag(self.flags, ADDALPHA)]
    ELSE [self EXCEPT !.flags = ClearFlag(self.flags, ADDALPHA)]

\* blend as a slip would have it: blend(true) flips the flag instead of setting it
blend_toggles(self, b) ==
    IF b /\ ~HasFlag(self.flags, BLEND)
    THEN [self EXCEPT !.flags = SetFlag(self.flags, BLEND)]
    ELSE [self EXCEPT !.flags = ClearFlag(self.flags, BLEND)]

\* blend as a slip would have it: blend(false) clears ADDALPHA along with BLEND
blend_clears_alpha(self, b) ==
    IF b THEN [self EXCEPT !.flags = SetFlag(self.flags, BLEND)]
         ELSE [self EXCEPT !.flags = ClearFlag(ClearFlag(self.flags, BLEND), ADDALPHA)]

blend(self, b) ==
    IF b THEN [self EXCEPT !.flags = SetFlag(self.flags, BLEND)]
         ELSE [self EXCEPT !.flags = ClearFlag(self.flags, BLEND)]

\* degrade as a slip would have it: the flag follows the argument, not its negation
degrade_not_inverted(self, d) ==
    IF d THEN [self EXCEPT !.flags = SetFlag(self.flags, NODEGRADE)]
         ELSE [self EXCEPT !.flags = ClearFlag(self.flags, NODEGRADE)]

degrade(self, d) ==
    IF d THEN [self EXCEPT !.flags = ClearFlag(self.flags, NODEGRADE)]
         ELSE [self EXCEPT !.flags = SetFlag(self.flags, NODEGRADE)]

interpolate(self, i) ==
    IF i THEN [self EXCEPT !.flags = ClearFlag(self.flags, NOINTERPOLATE)]
         ELSE [self EXCEPT !.flags = SetFlag(self.flags, NOINTERPOLATE)]

region(self, r) == [self EXCEPT !.region_yx_lenyx = Some(r)]

\* cell_offset as a slip would have it: the offset put where region puts the
\* region's origin
cell_offset_into_region(self, o) ==
    [self EXCEPT !.region_yx_lenyx = Some(<< o[1], o[2], 0, 0 >>)]

cell_offset(self, o) == [self EXCEPT !.cell_offset_yx = Some(o)]

\* NcVisualOptions::new keeps what it is given
NcVisualOptions_new(n, scaling, py, px, reg, pxoff, blit, fl, tc) ==
    [ n |-> n, scaling |-> scaling, y |-> py, x |-> px,
      region |-> reg, cell_offset |-> pxoff,
      blitter |-> blit, flags |-> fl, transcolor |-> tc ]

build(self) ==
    NcVisualOptions_new(self.plane, self.scale, self.y, self.x,
                        self.region_yx_lenyx, self.cell_offset_yx,
                        self.blitter, self.flags, self.transcolor)

(***************************************************************************)
(* notcurses_align (src/notcurses.rs).  The i32 arithmetic: `/` truncates  *)
(* towards zero, and a difference outside of the i32 range wraps.          *)
(***************************************************************************)
\* a - b leaves the i32 range
SubOverflows(a, b) ==
    \/ b < 0 /\ a > I32_MAX + b
    \/ b > 0 /\ a < I32_MIN + b

\* a - b in i32, wrapping around when it leaves the range
WrappingSub(a, b) ==
    IF b < 0 /\ a > I32_MAX + b THEN ((a + I32_MIN) - b) + I32_MIN
    ELSE IF b > 0 /\ a < I32_MIN + b THEN (((a - I32_MIN) - b) + I32_MAX) + 1
    ELSE a - b

\* a / b of i32 for b > 0: rounded towards zero (of a < 0 it is had from
\* -(a + 1), which is in the range for i32::MIN too)
TruncDiv(a, b) ==
    IF a >= 0 THEN a \div b
    ELSE LET m == 0 - (a + 1)
         IN  0 - ((m \div b) + (IF m % b = b - 1 THEN 1 ELSE 0))

\* notcurses_align reaches `availcols - cols` and the difference is not an
\* i32
AlignOverflows(availcols, al, cols) ==
    /\ al # NCALIGN_LEFT
    /\ ~(cols > availcols)
    /\ SubOverflows(availcols, cols)

\* an i32 operation that overflows panics where overflow checks are compiled
\* in (debug) and wraps around where they are not (release)
Builds == {"debug", "release"}

\* notcurses_align as a slip would have it: content longer than the space is
\* not clipped to the anchor edge
notcurses_align_no_clip(availcols, al, cols) ==
    IF al = NCALIGN_LEFT THEN 0
    ELSE IF al = NCALIGN_CENTER THEN TruncDiv(WrappingSub(availcols, cols), 2)
    ELSE WrappingSub(availcols, cols)

\* notcurses_align as a slip would have it: aligned right, the content is put
\* at the right edge instead of ending there
notcurses_align_right_edge(availcols, al, cols) ==
    IF al = NCALIGN_LEFT THEN 0
    ELSE IF cols > availcols THEN 0
    ELSE IF al = NCALIGN_CENTER THEN TruncDiv(WrappingSub(availcols, cols), 2)
    ELSE availcols

notcurses_align(availcols, al, cols) ==
    IF al = NCALIGN_LEFT THEN 0
    ELSE IF cols > availcols THEN 0
    ELSE IF al = NCALIGN_CENTER THEN TruncDiv(WrappingSub(availcols, cols), 2)
    ELSE WrappingSub(availcols, cols)

Extents == 0 .. MaxExtent

\* extents of the whole of i32: around 0 and at both ends of the range
WideExtents ==
    UNION { {I32_MIN + k, 0 - k, k, I32_MAX - k} : k \in 0 .. MaxNear }

(***************************************************************************)
(* The state.                                                              *)
(*   builder          the NcVisualOptionsBuilder                           *)
(*   lastTarget       the last call of plane, parent or no_plane ("new":   *)
(*                    none yet)                                            *)
(*   lastV, lastH     the last call that named the vertical (horizontal)   *)
(*                    axis: its kind, "coord" or "align", and its          *)
(*                    argument; before the first, the default coordinate 0 *)
(*   lastDegrade, lastInterpolate, lastTrans                               *)
(*                    the argument of the last call of degrade,            *)
(*                    interpolate and transcolor; before the first, their  *)
(*                    defaults: true, true and None                        *)
(*   lastRegion, lastCellOffset                                            *)
(*                    the argument of the last call of region and of       *)
(*                    cell_offset, None before the first                   *)
(*   availcols, almode, cols, offset                                       *)
(*                    the arguments of notcurses_align and its result      *)
(*   panicked         notcurses_align has panicked                         *)
(*   other            a second builder, given the calls of the first in    *)
(*                    another order, or one of them once more              *)
(*   phase            "build", then "swapped" or "repeated" once the two   *)
(*                    builders have been given the calls to compare        *)
(*   made             the setters of the calls compared                    *)
(*   nCalls           the calls made before the comparison                 *)
(*   inp              the terminal's input and the caller of the two       *)
(*                    notcurses_getc wrappers (see InitInputIdle)          *)
(*   dim              the standard plane and what the dimension queries    *)
(*                    wrote (see InitDimIdle)                              *)
(***************************************************************************)
VARIABLES builder, lastTarget, lastV, lastH, lastDegrade, lastInterpolate, lastTrans,
          lastRegion, lastCellOffset,
          availcols, almode, cols, offset, panicked,
          other, phase, made, nCalls,
          inp, dim

builderVars == << builder, lastTarget, lastV, lastH, lastDegrade, lastInterpolate, lastTrans,
                 lastRegion, lastCellOffset >>

alignVars == << availcols, almode, cols, offset, panicked >>

orderVars == << other, phase, made, nCalls >>

ioVars == << inp, dim >>

vars == << builder, lastTarget, lastV, lastH, lastDegrade, lastInterpolate, lastTrans,
           lastRegion, lastCellOffset,
           availcols, almode, cols, offset, panicked, other, phase, made, nCalls, inp, dim >>

\* the placement of a fresh builder: the coordinate 0 (`Default: 0`)
DefaultPlacement == [kind |-> "coord", arg |-> 0]

InitBuilder ==
    /\ builder = NcVisualOptionsBuilder
    /\ lastTarget = "new"
    /\ lastV = DefaultPlacement
    /\ lastH = DefaultPlacement
    /\ lastDegrade = TRUE
    /\ lastInterpolate = TRUE
    /\ lastTrans = None
    /\ lastRegion = None
    /\ lastCellOffset = None

InitAlignIdle ==
    /\ availcols = 0
    /\ almode = NCALIGN_LEFT
    /\ cols = 0
    /\ offset = None
    /\ panicked = FALSE

InitOrderIdle ==
    /\ other = NcVisualOptionsBuilder
    /\ phase = "build"
    /\ made = << >>
    /\ nCalls = 0

(***************************************************************************)
(* The input of the terminal and the caller of notcurses_getc_nblock and   *)
(* notcurses_getc_nblocking:                                               *)
(*   queue    the input events that are ready, oldest first (their ids)    *)
(*   sig      a signal has arrived and was not delivered yet               *)
(*   pc       "idle", or "waiting" while the caller is suspended in        *)
(*            notcurses_getc                                               *)
(*   fn       the wrapper called last; args: the timeout and the signal    *)
(*            mask that it gave to notcurses_getc                          *)
(*   ret      what notcurses_getc returned (None: nothing yet); why: the   *)
(*            kind of that outcome                                         *)
(*   chr      the char that the wrapper returned (None: nothing yet)       *)
(*   detail   the id in the caller's NcInput; detail0: what it was when    *)
(*            the wrapper was called                                       *)
(*   had      an event was ready when the wrapper was called               *)
(*   sig0     a signal was pending when the wrapper was called             *)
(*   waited   the caller was suspended during the call                     *)
(***************************************************************************)
InitInputIdle ==
    inp = [ queue |-> << >>, sig |-> FALSE, pc |-> "idle", fn |-> "none",
            args |-> [ts |-> "zero", mask |-> "full"],
            ret |-> None, why |-> "none", chr |-> None,
            detail |-> 0, detail0 |-> 0, had |-> FALSE, sig0 |-> FALSE,
            waited |-> FALSE ]

(***************************************************************************)
(* The standard plane and the dimension queries:                           *)
(*   rows, cols   the dimensions of the standard plane                     *)
(*   y, x         what the last query wrote (0: nothing yet)               *)
(*   ret          the NcPlane that notcurses_stddim_yx returned            *)
(*   fn           the query made last, "resize" after a resize             *)
(***************************************************************************)
InitDimIdle ==
    dim = [ rows |-> 1, cols |-> 1, y |-> 0, x |-> 0, ret |-> None, fn |-> "none" ]

Init ==
    /\ InitBuilder
    /\ InitAlignIdle
    /\ InitOrderIdle
    /\ InitInputIdle
    /\ InitDimIdle

(***************************************************************************)
(* One action per setter: the builder becomes what the setter returns.     *)
(***************************************************************************)
Plane ==
    \E p \in Planes :
        /\ builder' = plane(builder, p)
        /\ lastTarget' = "plane"
        /\ UNCHANGED << lastV, lastH, lastDegrade, lastInterpolate, lastTrans, lastRegion, lastCellOffset, alignVars, ioVars, orderVars >>

Child ==
    \E c \in BOOLEAN :
        /\ builder' = child(builder, c)
        /\ UNCHANGED << lastTarget, lastV, lastH, lastDegrade, lastInterpolate, lastTrans, lastRegion, lastCellOffset, alignVars, ioVars, orderVars >>

Parent ==
    \E p \in Planes :
        /\ builder' = parent(builder, p)
        /\ lastTarget' = "parent"
        /\ UNCHANGED << lastV, lastH, lastDegrade, lastInterpolate, lastTrans, lastRegion, lastCellOffset, alignVars, ioVars, orderVars >>

NoPlane ==
    /\ builder' = no_plane(builder)
    /\ lastTarget' = "no_plane"
    /\ UNCHANGED << lastV, lastH, lastDegrade, lastInterpolate, lastTrans, lastRegion, lastCellOffset, alignVars, ioVars, orderVars >>

Scale ==
    \E s \in NcScales :
        /\ builder' = scale(builder, s)
        /\ UNCHANGED << lastTarget, lastV, lastH, lastDegrade, lastInterpolate, lastTrans, lastRegion, lastCellOffset, alignVars, ioVars, orderVars >>

Y ==
    \E v \in NcOffsets :
        /\ builder' = y(builder, v)
        /\ lastV' = [kind |-> "coord", arg |-> v]
        /\ UNCHANGED << lastTarget, lastH, lastDegrade, lastInterpolate, lastTrans, lastRegion, lastCellOffset, alignVars, ioVars, orderVars >>

X ==
    \E h \in NcOffsets :
        /\ builder' = x(builder, h)
        /\ lastH' = [kind |-> "coord", arg |-> h]
        /\ UNCHANGED << lastTarget, lastV, lastDegrade, lastInterpolate, lastTrans, lastRegion, lastCellOffset, alignVars, ioVars, orderVars >>

YX ==
    \E v \in NcOffsets, h \in NcOffsets :
        /\ builder' = yx(builder, v, h)
        /\ lastV' = [kind |-> "coord", arg |-> v]
        /\ lastH' = [kind |-> "coord", arg |-> h]
        /\ UNCHANGED << lastTarget, lastDegrade, lastInterpolate, lastTrans, lastRegion, lastCellOffset, alignVars, ioVars, orderVars >>

VAlign ==
    \E a \in NcAligns :
        /\ builder' = valign(builder, a)
        /\ lastV' = [kind |-> "align", arg |-> a]
        /\ UNCHANGED << lastTarget, lastH, lastDegrade, lastInterpolate, lastTrans, lastRegion, lastCellOffset, alignVars, ioVars, orderVars >>

HAlign ==
    \E a \in NcAligns :
        /\ builder' = halign(builder, a)
        /\ lastH' = [kind |-> "align", arg |-> a]
        /\ UNCHANGED << lastTarget, lastV, lastDegrade, lastInterpolate, lastTrans, lastRegion, lastCellOffset, alignVars, ioVars, orderVars >>

Align ==
    \E v \in NcAligns, h \in NcAligns :
        /\ builder' = align(builder, v, h)
        /\ lastV' = [kind |-> "align", arg |-> v]
        /\ lastH' = [kind |-> "align", arg |-> h]
        /\ UNCHANGED << lastTarget, lastDegrade, lastInterpolate, lastTrans, lastRegion, lastCellOffset, alignVars, ioVars, orderVars >>

Blitter ==
    \E b \in NcBlitters :
        /\ builder' = blitter(builder, b)
        /\ UNCHANGED << lastTarget, lastV, lastH, lastDegrade, lastInterpolate, lastTrans, lastRegion, lastCellOffset, alignVars, ioVars, orderVars >>

Pixel ==
    /\ builder' = pixel(builder)
    /\ UNCHANGED << lastTarget, lastV, lastH, lastDegrade, lastInterpolate, lastTrans, lastRegion, lastCellOffset, alignVars, ioVars, orderVars >>

Transcolor ==
    \E color \in {None} \cup { Some(c) : c \in NcRgbas } :
        /\ builder' = transcolor(builder, color)
        /\ lastTrans' = color
        /\ UNCHANGED << lastTarget, lastV, lastH, lastDegrade, lastInterpolate,
                       lastRegion, lastCellOffset, alignVars, ioVars, orderVars >>

Blend ==
    \E b \in BOOLEAN :
        /\ builder' = blend(builder, b)
        /\ UNCHANGED << lastTarget, lastV, lastH, lastDegrade, lastInterpolate, lastTrans, lastRegion, lastCellOffset, alignVars, ioVars, orderVars >>

Degrade ==
    \E d \in BOOLEAN :
        /\ builder' = degrade(builder, d)
        /\ lastDegrade' = d
        /\ UNCHANGED << lastTarget, lastV, lastH, lastInterpolate, lastTrans, lastRegion, lastCellOffset, alignVars, ioVars, orderVars >>

Interpolate ==
    \E i \in BOOLEAN :
        /\ builder' = interpolate(builder, i)
        /\ lastInterpolate' = i
        /\ UNCHANGED << lastTarget, lastV, lastH, lastDegrade, lastTrans, lastRegion, lastCellOffset, alignVars, ioVars, orderVars >>

Region ==
    \E r \in Regions :
        /\ builder' = region(builder, r)
        /\ lastRegion' = Some(r)
        /\ UNCHANGED << lastTarget, lastV, lastH, lastDegrade, lastInterpolate, lastTrans,
                       lastCellOffset, alignVars, ioVars, orderVars >>

CellOffset ==
    \E o \in CellOffsets :
        /\ builder' = cell_offset(builder, o)
        /\ lastCellOffset' = Some(o)
        /\ UNCHANGED << lastTarget, lastV, lastH, lastDegrade, lastInterpolate, lastTrans,
                       lastRegion, alignVars, ioVars, orderVars >>

Next ==
    \/ Plane
    \/ Child
    \/ Parent
    \/ NoPlane
    \/ Scale
    \/ Y
    \/ X
    \/ YX
    \/ VAlign
    \/ HAlign
    \/ Align
    \/ Blitter
    \/ Pixel
    \/ Transcolor
    \/ Blend
    \/ Degrade
    \/ Interpolate
    \/ Region
    \/ CellOffset

Spec == Init /\ [][Next]_vars

(***************************************************************************)
(* notcurses_align on arguments drawn from the extents and the alignments. *)
(***************************************************************************)
InitAlign ==
    /\ InitBuilder
    /\ InitOrderIdle
    /\ InitInputIdle
    /\ InitDimIdle
    /\ availcols \in Extents
    /\ almode \in NcAligns
    /\ cols \in Extents
    /\ offset = None
    /\ panicked = FALSE

NotcursesAlign ==
    /\ offset = None
    /\ ~panicked
    /\ IF AlignOverflows(availcols, almode, cols)
       THEN \E b \in Builds :
                IF b = "debug"
                THEN panicked' = TRUE /\ UNCHANGED offset
                ELSE /\ offset' = Some(notcurses_align(availcols, almode, cols))
                     /\ UNCHANGED panicked
       ELSE /\ offset' = Some(notcurses_align(availcols, almode, cols))
            /\ UNCHANGED panicked
    /\ UNCHANGED << availcols, almode, cols, builderVars, orderVars, ioVars >>

NextAlign == NotcursesAlign

SpecAlign == InitAlign /\ [][NextAlign]_vars

InitAlignWide ==
    /\ InitBuilder
    /\ InitOrderIdle
    /\ InitInputIdle
    /\ InitDimIdle
    /\ availcols \in WideExtents
    /\ almode \in NcAligns
    /\ cols \in WideExtents
    /\ offset = None
    /\ panicked = FALSE

SpecAlignWide == InitAlignWide /\ [][NextAlign]_vars

(***************************************************************************)
(* C3: for extents available >= 0 and length >= 0, notcurses_align gives 0 *)
(* for LEFT, 0 when the length exceeds the space, whatever the mode, the   *)
(* floor of (available - length) / 2 for CENTER and available - length for *)
(* RIGHT when the length fits; (80, CENTER, 10) gives 35, (80, CENTER, 11) *)
(* gives 34 and (10, RIGHT, 20) gives 0.  The floor is stated by what it   *)
(* is: the greatest number whose double does not exceed the difference.    *)
(***************************************************************************)
C3_AlignReference ==
    (offset # None /\ availcols >= 0 /\ cols >= 0) =>
        /\ almode = NCALIGN_LEFT => offset[1] = 0
        /\ cols > availcols => offset[1] = 0
        /\ (almode = NCALIGN_CENTER /\ cols <= availcols) =>
              /\ 2 * offset[1] <= availcols - cols
              /\ availcols - cols < 2 * offset[1] + 2
        /\ (almode = NCALIGN_RIGHT /\ cols <= availcols) =>
              offset[1] + cols = availcols
        /\ (availcols = 80 /\ almode = NCALIGN_CENTER /\ cols = 10) => offset[1] = 35
        /\ (availcols = 80 /\ almode = NCALIGN_CENTER /\ cols = 11) => offset[1] = 34
        /\ (availcols = 10 /\ almode = NCALIGN_RIGHT /\ cols = 20) => offset[1] = 0

\* 11 columns centered in 80: the odd difference, 69, is halved to 34
C3_Witness ==
    /\ availcols = 80
    /\ almode = NCALIGN_CENTER
    /\ cols = 11
    /\ offset = Some(34)

(***************************************************************************)
(* What is compared in the properties of the builder.                      *)
(***************************************************************************)
FieldNames == DOMAIN NcVisualOptionsBuilder

\* a and b agree on every field that is not in fields (the flags apart)
SameFields(a, b, fields) ==
    \A f \in (FieldNames \ {"flags"}) \ fields : a[f] = b[f]

\* the flags fa and fb agree on every bit that is not in bits
SameFlags(fa, fb, bits) ==
    \A bit \in AllFlags \ bits : HasFlag(fa, bit) = HasFlag(fb, bit)

\* what a builder can be, within the bounds
Builders ==
    [ plane           : {None} \cup { Some(p) : p \in Planes },
      scale           : NcScales,
      y               : NcOffsets \cup NcAligns,
      x               : NcOffsets \cup NcAligns,
      region_yx_lenyx : {None} \cup { Some(r) : r \in Regions },
      cell_offset_yx  : {None} \cup { Some(o) : o \in CellOffsets },
      blitter         : NcBlitters,
      flags           : 0 .. 127,
      transcolor      : NcRgbas ]

C2_TranscolorCoupling ==
    /\ lastTrans # None =>
          /\ HasFlag(build(builder).flags, ADDALPHA)
          /\ build(builder).transcolor = lastTrans[1]
    /\ lastTrans = None =>
          /\ ~HasFlag(build(builder).flags, ADDALPHA)
          /\ build(builder).transcolor = NcVisualOptionsBuilder.transcolor

(***************************************************************************)
(* C4: NODEGRADE is set if and only if the last call of degrade was        *)
(* degrade(false), and NOINTERPOLATE if and only if the last call of       *)
(* interpolate was interpolate(false); without a call the default, true,   *)
(* stands and the bit is clear.  Each bit follows its own setter only.     *)
(***************************************************************************)
C4_DegradeInterpolate ==
    /\ HasFlag(builder.flags, NODEGRADE) <=> ~lastDegrade
    /\ HasFlag(builder.flags, NOINTERPOLATE) <=> ~lastInterpolate

\* degrade(false) and interpolate(true) were the last calls of the two
C4_Witness ==
    /\ ~lastDegrade
    /\ lastInterpolate
    /\ HasFlag(builder.flags, NODEGRADE)
    /\ ~HasFlag(builder.flags, NOINTERPOLATE)
    /\ HasFlag(builder.flags, BLEND)

C8_NoPlaneAndParent ==
    /\ no_plane(builder).plane = None
    /\ ~HasFlag(no_plane(builder).flags, CHILDPLANE)
    /\ SameFields(no_plane(builder), builder, {"plane"})
    /\ SameFlags(no_plane(builder).flags, builder.flags, {CHILDPLANE})
    /\ \A p \in Planes : parent(builder, p) = child(plane(builder, p), TRUE)
    /\ lastTarget = "no_plane" => builder.plane = None
    /\ lastTarget = "parent" => builder.plane # None

\* no_plane was called, and the other flags are still set
C8_Witness ==
    /\ lastTarget = "no_plane"
    /\ builder.plane = None
    /\ ~HasFlag(builder.flags, CHILDPLANE)
    /\ HasFlag(builder.flags, BLEND)
    /\ HasFlag(builder.flags, ADDALPHA)
    /\ builder.scale = NCSCALE_SCALE

(***************************************************************************)
(* C9: plane(p) records the plane and leaves the flags and every other     *)
(* field as they are; child(b) sets or clears CHILDPLANE and changes       *)
(* nothing else, the plane included; blend(b) sets or clears BLEND and     *)
(* changes nothing else, ADDALPHA and the transparent color included.      *)
(***************************************************************************)
C9_Frames ==
    /\ \A p \in Planes :
          /\ plane(builder, p).plane = Some(p)
          /\ plane(builder, p).flags = builder.flags
          /\ SameFields(plane(builder, p), builder, {"plane"})
    /\ \A b \in BOOLEAN :
          /\ HasFlag(child(builder, b).flags, CHILDPLANE) = b
          /\ SameFlags(child(builder, b).flags, builder.flags, {CHILDPLANE})
          /\ SameFields(child(builder, b), builder, {})
          /\ HasFlag(blend(builder, b).flags, BLEND) = b
          /\ SameFlags(blend(builder, b).flags, builder.flags, {BLEND})
          /\ SameFields(blend(builder, b), builder, {})

\* a plane was recorded by plane(p) while flags were set, CHILDPLANE is clear
C9_Witness ==
    /\ lastTarget = "plane"
    /\ builder.plane = Some(1)
    /\ ~HasFlag(builder.flags, CHILDPLANE)
    /\ HasFlag(builder.flags, ADDALPHA)
    /\ ~HasFlag(builder.flags, BLEND)
    /\ builder.transcolor = 1

(***************************************************************************)
(* C10: no call fails.  In every state every setter can be called, with    *)
(* every argument, and what it returns is a builder; child(true) without a *)
(* plane gives a builder with CHILDPLANE set and no plane; region and      *)
(* cell_offset store their arguments as they are given.                    *)
(***************************************************************************)
C10_NoFailure ==
    /\ builder \in Builders
    /\ ENABLED Plane /\ ENABLED Child /\ ENABLED Parent /\ ENABLED NoPlane
    /\ ENABLED Scale /\ ENABLED Y /\ ENABLED X /\ ENABLED YX
    /\ ENABLED VAlign /\ ENABLED HAlign /\ ENABLED Align
    /\ ENABLED Blitter /\ ENABLED Pixel /\ ENABLED Transcolor /\ ENABLED Blend
    /\ ENABLED Degrade /\ ENABLED Interpolate /\ ENABLED Region /\ ENABLED CellOffset
    /\ \A b \in BOOLEAN : child(builder, b) \in Builders
    /\ builder.plane = None =>
          /\ child(builder, TRUE).plane = None
          /\ HasFlag(child(builder, TRUE).flags, CHILDPLANE)
    /\ \A r \in Regions :
          /\ region(builder, r) \in Builders
          /\ region(builder, r).region_yx_lenyx = Some(r)
    /\ \A o \in CellOffsets :
          /\ cell_offset(builder, o) \in Builders
          /\ cell_offset(builder, o).cell_offset_yx = Some(o)

\* child(true) was called without a plane (no_plane clears CHILDPLANE, so
\* that there is no other way to this state), region and cell_offset were called
C10_Witness ==
    /\ builder.plane = None
    /\ HasFlag(builder.flags, CHILDPLANE)
    /\ builder.region_yx_lenyx = Some(<< 0, 1, 2, 3 >>)
    /\ builder.cell_offset_yx = Some(<< 0, 1 >>)

(***************************************************************************)
(* The calls of the setters as values: the setter and its arguments, a     *)
(* tuple of numbers (a bool is 1 for true and 0 for false; the argument of *)
(* transcolor is the tuple itself, empty for None; those of region and     *)
(* cell_offset are the tuple itself).                                      *)
(***************************************************************************)
Bit(b) == IF b THEN 1 ELSE 0

Calls ==
    { [op |-> "plane", a |-> << p >>] : p \in Planes }
    \cup { [op |-> "child", a |-> << Bit(c) >>] : c \in BOOLEAN }
    \cup { [op |-> "parent", a |-> << p >>] : p \in Planes }
    \cup { [op |-> "no_plane", a |-> << >>] }
    \cup { [op |-> "scale", a |-> << s >>] : s \in NcScales }
    \cup { [op |-> "y", a |-> << v >>] : v \in NcOffsets }
    \cup { [op |-> "x", a |-> << h >>] : h \in NcOffsets }
    \cup { [op |-> "yx", a |-> << v, h >>] : v \in NcOffsets, h \in NcOffsets }
    \cup { [op |-> "valign", a |-> << v >>] : v \in NcAligns }
    \cup { [op |-> "halign", a |-> << h >>] : h \in NcAligns }
    \cup { [op |-> "align", a |-> << v, h >>] : v \in NcAligns, h \in NcAligns }
    \cup { [op |-> "blitter", a |-> << b >>] : b \in NcBlitters }
    \cup { [op |-> "pixel", a |-> << >>] }
    \cup { [op |-> "transcolor", a |-> color] :
               color \in {None} \cup { Some(c) : c \in NcRgbas } }
    \cup { [op |-> "blend", a |-> << Bit(b) >>] : b \in BOOLEAN }
    \cup { [op |-> "degrade", a |-> << Bit(d) >>] : d \in BOOLEAN }
    \cup { [op |-> "interpolate", a |-> << Bit(i) >>] : i \in BOOLEAN }
    \cup { [op |-> "region", a |-> r] : r \in Regions }
    \cup { [op |-> "cell_offset", a |-> o] : o \in CellOffsets }

Apply(self, c) ==
    CASE c.op = "plane" -> plane(self, c.a[1])
      [] c.op = "child" -> child(self, c.a[1] = 1)
      [] c.op = "parent" -> parent(self, c.a[1])
      [] c.op = "no_plane" -> no_plane(self)
      [] c.op = "scale" -> scale(self, c.a[1])
      [] c.op = "y" -> y(self, c.a[1])
      [] c.op = "x" -> x(self, c.a[1])
      [] c.op = "yx" -> yx(self, c.a[1], c.a[2])
      [] c.op = "valign" -> valign(self, c.a[1])
      [] c.op = "halign" -> halign(self, c.a[1])
      [] c.op = "align" -> align(self, c.a[1], c.a[2])
      [] c.op = "blitter" -> blitter(self, c.a[1])
      [] c.op = "pixel" -> pixel(self)
      [] c.op = "transcolor" -> transcolor(self, c.a)
      [] c.op = "blend" -> blend(self, c.a[1] = 1)
      [] c.op = "degrade" -> degrade(self, c.a[1] = 1)
      [] c.op = "interpolate" -> interpolate(self, c.a[1] = 1)
      [] c.op = "region" -> region(self, c.a)
      [] c.op = "cell_offset" -> cell_offset(self, c.a)

\* the fields (f) and the flag bits (b) that the setter assigns
Writes(o) ==
    CASE o = "plane" -> [f |-> {"plane"}, b |-> {}]
      [] o = "child" -> [f |-> {}, b |-> {CHILDPLANE}]
      [] o = "parent" -> [f |-> {"plane"}, b |-> {CHILDPLANE}]
      [] o = "no_plane" -> [f |-> {"plane"}, b |-> {CHILDPLANE}]
      [] o = "scale" -> [f |-> {"scale"}, b |-> {}]
      [] o = "y" -> [f |-> {"y"}, b |-> {VERALIGNED}]
      [] o = "x" -> [f |-> {"x"}, b |-> {HORALIGNED}]
      [] o = "yx" -> [f |-> {"y", "x"}, b |-> {VERALIGNED, HORALIGNED}]
      [] o = "valign" -> [f |-> {"y"}, b |-> {VERALIGNED}]
      [] o = "halign" -> [f |-> {"x"}, b |-> {HORALIGNED}]
      [] o = "align" -> [f |-> {"y", "x"}, b |-> {VERALIGNED, HORALIGNED}]
      [] o = "blitter" -> [f |-> {"blitter"}, b |-> {}]
      [] o = "pixel" -> [f |-> {"blitter"}, b |-> {}]
      [] o = "transcolor" -> [f |-> {"transcolor"}, b |-> {ADDALPHA}]
      [] o = "blend" -> [f |-> {}, b |-> {BLEND}]
      [] o = "degrade" -> [f |-> {}, b |-> {NODEGRADE}]
      [] o = "interpolate" -> [f |-> {}, b |-> {NOINTERPOLATE}]
      [] o = "region" -> [f |-> {"region_yx_lenyx"}, b |-> {}]
      [] o = "cell_offset" -> [f |-> {"cell_offset_yx"}, b |-> {}]

\* the two setters have no field and no flag bit in common
Disjoint(o1, o2) ==
    /\ Writes(o1).f \cap Writes(o2).f = {}
    /\ Writes(o1).b \cap Writes(o2).b = {}

(***************************************************************************)
(* Two builders side by side.  After at most MaxCalls calls, the builder   *)
(* is given two calls of setters that have nothing in common, and the      *)
(* other builder the same two calls in the other order (Swap); or the      *)
(* builder is given a call once and the other builder twice (Repeat).      *)
(***************************************************************************)
Prepare ==
    /\ phase = "build"
    /\ nCalls < MaxCalls
    /\ \E c \in Calls :
          /\ builder' = Apply(builder, c)
          /\ other' = Apply(other, c)
    /\ nCalls' = nCalls + 1
    /\ UNCHANGED << phase, made, lastTarget, lastV, lastH, lastDegrade,
                    lastInterpolate, lastTrans, lastRegion, lastCellOffset, alignVars, ioVars >>

Swap ==
    /\ phase = "build"
    /\ \E c1 \in Calls, c2 \in Calls :
          /\ Disjoint(c1.op, c2.op)
          /\ builder' = Apply(Apply(builder, c1), c2)
          /\ other' = Apply(Apply(other, c2), c1)
          /\ made' = << c1.op, c2.op >>
    /\ phase' = "swapped"
    /\ UNCHANGED << nCalls, lastTarget, lastV, lastH, lastDegrade,
                    lastInterpolate, lastTrans, lastRegion, lastCellOffset, alignVars, ioVars >>

Repeat ==
    /\ phase = "build"
    /\ \E c \in Calls :
          /\ builder' = Apply(builder, c)
          /\ other' = Apply(Apply(other, c), c)
          /\ made' = << c.op, c.op >>
    /\ phase' = "repeated"
    /\ UNCHANGED << nCalls, lastTarget, lastV, lastH, lastDegrade,
                    lastInterpolate, lastTrans, lastRegion, lastCellOffset, alignVars, ioVars >>

NextOrder ==
    \/ Prepare
    \/ Swap
    \/ Repeat

SpecOrder == Init /\ [][NextOrder]_vars

(***************************************************************************)
(* C6: the order of two calls matters only when they touch a common field  *)
(* or flag: two calls of setters that have no field and no flag bit in     *)
(* common give, in either order, the same builder and the same descriptor. *)
(***************************************************************************)
C6_DisjointCommute ==
    phase = "swapped" =>
        /\ builder = other
        /\ build(builder) = build(other)

\* valign and halign were made in the two orders, after a call of y
C6_Witness ==
    /\ phase = "swapped"
    /\ made = << "valign", "halign" >>
    /\ nCalls >= 1
    /\ builder.y = NCALIGN_CENTER
    /\ builder.x = NCALIGN_RIGHT
    /\ HasFlag(builder.flags, VERALIGNED)
    /\ HasFlag(builder.flags, HORALIGNED)

(***************************************************************************)
(* C7: a setter called twice in a row with the same argument gives the     *)
(* descriptor that it gives when called once.                              *)
(***************************************************************************)
C7_Idempotent ==
    phase = "repeated" => build(builder) = build(other)

\* transcolor(Some(1)) was made once on one builder, twice on the other
C7_Witness ==
    /\ phase = "repeated"
    /\ made = << "transcolor", "transcolor" >>
    /\ nCalls >= 1
    /\ HasFlag(other.flags, ADDALPHA)
    /\ other.transcolor = 1

(***************************************************************************)
(* Input retrieval (src/notcurses.rs).                                     *)
(*                                                                         *)
(* notcurses_getc is the read primitive of the C library: it takes a       *)
(* timeout (a zero timespec: do not wait; null: wait without bound) and    *)
(* the mask of the signals blocked during the wait.  It returns the id of  *)
(* the oldest event that is ready and writes its details; without an       *)
(* event, a signal that is pending and not blocked interrupts it, and it   *)
(* returns (char32_t)-1; without either it returns 0 when the timeout is   *)
(* zero, and waits otherwise.                                              *)
(***************************************************************************)
KeyIds == { 96 + k : k \in 1 .. MaxKey }

\* (char32_t)-1, all bits set: written as the i32 that has the same bits
GetcError == 0 - 1

notcurses_getc(ts, mask, queue, sig) ==
    IF queue # << >> THEN [kind |-> "event", ret |-> Head(queue)]
    ELSE IF sig /\ mask = "empty" THEN [kind |-> "signal", ret |-> GetcError]
    ELSE IF ts = "zero" THEN [kind |-> "timeout", ret |-> 0]
    ELSE [kind |-> "wait", ret |-> 0]

\* a Unicode scalar value: what a char may hold
IsChar(u) == (0 <= u /\ u <= 55295) \/ (57344 <= u /\ u <= 1114111)

\* core::char::from_u32_unchecked: the char of a scalar value; of anything
\* else the behaviour is undefined: a char that holds the same bits, or any
\* other char, as the build has it
from_u32_unchecked(u) == IF IsChar(u) THEN {u} ELSE {u, 0, 65533}

\* notcurses_getc_nblock as a slip would have it: sigemptyset for sigfillset
NblockArgs_no_mask == [ts |-> "zero", mask |-> "empty"]

\* what notcurses_getc_nblock gives to notcurses_getc: a timespec of zero
\* and the signal set filled by sigfillset
NblockArgs == [ts |-> "zero", mask |-> "full"]

\* notcurses_getc_nblocking as a slip would have it: the timespec of zero of
\* notcurses_getc_nblock
BlockingArgs_zero_timeout == [ts |-> "zero", mask |-> "empty"]

\* what notcurses_getc_nblocking gives to notcurses_getc: null for the
\* timespec and the signal set emptied by sigemptyset
BlockingArgs == [ts |-> "null", mask |-> "empty"]

\* the caller i once notcurses_getc has returned with the outcome o and the
\* wrapper has made the char c of it
Returned(i, o, c) ==
    [i EXCEPT !.pc = "idle",
              !.ret = Some(o.ret),
              !.why = o.kind,
              !.chr = Some(c),
              !.queue = IF o.kind = "event" THEN Tail(i.queue) ELSE i.queue,
              !.sig = IF o.kind = "signal" THEN FALSE ELSE i.sig,
              !.detail = IF o.kind = "event" THEN o.ret ELSE i.detail]

\* the wrapper fn calls notcurses_getc with args
Getc(fn, args) ==
    LET o == notcurses_getc(args.ts, args.mask, inp.queue, inp.sig)
        called == [inp EXCEPT !.fn = fn, !.args = args,
                              !.ret = None, !.why = "none", !.chr = None,
                              !.detail0 = inp.detail,
                              !.had = (inp.queue # << >>),
                              !.sig0 = inp.sig,
                              !.waited = FALSE]
    IN  IF o.kind = "wait"
        THEN inp' = [called EXCEPT !.pc = "waiting", !.waited = TRUE]
        ELSE \E c \in from_u32_unchecked(o.ret) : inp' = Returned(called, o, c)

KeyArrives ==
    /\ Len(inp.queue) < MaxPending
    /\ \E k \in KeyIds : inp' = [inp EXCEPT !.queue = Append(inp.queue, k)]
    /\ UNCHANGED << builderVars, alignVars, orderVars, dim >>

SignalArrives ==
    /\ ~inp.sig
    /\ inp' = [inp EXCEPT !.sig = TRUE]
    /\ UNCHANGED << builderVars, alignVars, orderVars, dim >>

NotcursesGetcNblock ==
    /\ inp.pc = "idle"
    /\ Getc("nblock", NblockArgs)
    /\ UNCHANGED << builderVars, alignVars, orderVars, dim >>

NotcursesGetcNblocking ==
    /\ inp.pc = "idle"
    /\ Getc("blocking", BlockingArgs)
    /\ UNCHANGED << builderVars, alignVars, orderVars, dim >>

\* the suspended caller is woken up: notcurses_getc returns
GetcWakes ==
    /\ inp.pc = "waiting"
    /\ LET o == notcurses_getc(inp.args.ts, inp.args.mask, inp.queue, inp.sig)
       IN  /\ o.kind # "wait"
           /\ \E c \in from_u32_unchecked(o.ret) : inp' = Returned(inp, o, c)
    /\ UNCHANGED << builderVars, alignVars, orderVars, dim >>

NextInput ==
    \/ KeyArrives
    \/ SignalArrives
    \/ NotcursesGetcNblock
    \/ NotcursesGetcNblocking
    \/ GetcWakes

SpecInput == Init /\ [][NextInput]_vars

(***************************************************************************)
(* C11: notcurses_getc_nblock never suspends the caller and is not         *)
(* interrupted by a signal: the call has returned as soon as it is made, a *)
(* signal that was pending is pending still, and what notcurses_getc       *)
(* returned is the id of an event if one was ready and 0 otherwise, in     *)
(* which case the detail slot is as it was.                                *)
(***************************************************************************)
C11_NblockReturnsAtOnce ==
    inp.fn = "nblock" =>
        /\ inp.pc = "idle"
        /\ ~inp.waited
        /\ inp.ret # None
        /\ inp.sig0 => inp.sig
        /\ inp.had => (inp.why = "event" /\ inp.ret[1] \in KeyIds)
        /\ ~inp.had => (inp.ret = Some(0) /\ inp.detail = inp.detail0)

\* called with a signal pending, no event ready and the details of an
\* earlier event in the slot: 0 is returned and the slot is as it was
C11_Witness ==
    /\ inp.fn = "nblock"
    /\ inp.sig0
    /\ ~inp.had
    /\ inp.ret = Some(0)
    /\ inp.detail = 97
    /\ inp.queue = << >>

\* a caller suspended in notcurses_getc is woken up once an event or a
\* signal it does not block is there: the wait is on the operating system's
\* event notification
SpecInputFair == Init /\ [][NextInput]_vars /\ WF_vars(GetcWakes)

(***************************************************************************)
(* C12: notcurses_getc_nblocking waits without a bound and blocks no       *)
(* signal: a call that has returned was ended by an event or by a signal,  *)
(* never by a timeout; a suspended caller stays suspended while there is   *)
(* neither an event nor a signal; and once there is one of them the call   *)
(* eventually returns.                                                     *)
(***************************************************************************)
C12_BlockingWaits ==
    /\ [](inp.fn = "blocking" /\ inp.pc = "idle" =>
              /\ inp.why \in {"event", "signal"}
              /\ inp.why = "signal" => (~inp.had /\ inp.ret = Some(GetcError)))
    /\ [][inp.pc = "waiting" /\ inp.queue = << >> /\ ~inp.sig
              => inp'.pc = "waiting"]_vars
    /\ ((inp.pc = "waiting" /\ (inp.queue # << >> \/ inp.sig)) ~> inp.pc = "idle")

\* a caller that was suspended and has been woken up by a signal
C12_Witness ==
    /\ inp.fn = "blocking"
    /\ inp.pc = "idle"
    /\ inp.waited
    /\ inp.why = "signal"
    /\ ~inp.sig

(***************************************************************************)
(* C13: a value that notcurses_getc returns is made a char only if it is a *)
(* Unicode scalar value.                                                   *)
(***************************************************************************)
C13_DecodeGuarded ==
    inp.chr # None => IsChar(inp.ret[1])

(***************************************************************************)
(* C14: notcurses_align yields an offset of every available extent, mode   *)
(* and length of i32: the call does not panic, and the offset it returns   *)
(* is not that of a difference that left the range of i32.                 *)
(***************************************************************************)
C14_AlignTotal ==
    /\ ~panicked
    /\ offset # None => ~AlignOverflows(availcols, almode, cols)

(***************************************************************************)
(* C16: of extents that are not negative the offset is not negative, and   *)
(* content that is no longer than the space ends within it.                *)
(***************************************************************************)
C16_OffsetInRange ==
    (offset # None /\ availcols >= 0 /\ cols >= 0) =>
        /\ offset[1] >= 0
        /\ cols <= availcols => offset[1] + cols <= availcols

\* 10 columns aligned right in 80 start at 70
C16_Witness ==
    /\ availcols = 80
    /\ almode = NCALIGN_RIGHT
    /\ cols = 10
    /\ offset = Some(70)

(***************************************************************************)
(* Dimension queries (src/notcurses.rs).                                   *)
(*                                                                         *)
(* The terminal is the record of its standard plane's rows and cols.       *)
(* notcurses_stdplane and notcurses_stdplane_const give the standard plane *)
(* of the terminal, ncplane_dim_yx the rows and cols a plane has when it   *)
(* is called; none of them changes the terminal.                           *)
(***************************************************************************)
TermSizes == 1 .. MaxTerm

notcurses_stdplane(nc) == [rows |-> nc.rows, cols |-> nc.cols]

notcurses_stdplane_const(nc) == [rows |-> nc.rows, cols |-> nc.cols]

ncplane_dim_yx(n) == [y |-> n.rows, x |-> n.cols]

\* notcurses_term_dim_yx as a slip would have it: rows and cols given to
\* ncplane_dim_yx the other way round
notcurses_term_dim_yx_swapped(nc) ==
    LET d == ncplane_dim_yx(notcurses_stdplane_const(nc))
    IN  [rows |-> d.x, cols |-> d.y]

\* what notcurses_term_dim_yx writes to rows and to cols
notcurses_term_dim_yx(nc) ==
    LET d == ncplane_dim_yx(notcurses_stdplane_const(nc))
    IN  [rows |-> d.y, cols |-> d.x]

\* what notcurses_stddim_yx writes to y and to x, and the NcPlane it returns
notcurses_stddim_yx(nc) ==
    LET s == notcurses_stdplane(nc)
        d == ncplane_dim_yx(s)
    IN  [y |-> d.y, x |-> d.x, ret |-> s]

\* the terminal is resized
Resize ==
    /\ \E r \in TermSizes, c \in TermSizes :
          /\ << r, c >> # << dim.rows, dim.cols >>
          /\ dim' = [dim EXCEPT !.rows = r, !.cols = c, !.fn = "resize"]
    /\ UNCHANGED << builderVars, alignVars, orderVars, inp >>

NotcursesTermDimYx ==
    /\ LET w == notcurses_term_dim_yx(dim)
       IN  dim' = [dim EXCEPT !.y = w.rows, !.x = w.cols, !.fn = "term_dim_yx"]
    /\ UNCHANGED << builderVars, alignVars, orderVars, inp >>

NotcursesStddimYx ==
    /\ LET w == notcurses_stddim_yx(dim)
       IN  dim' = [dim EXCEPT !.y = w.y, !.x = w.x, !.ret = Some(<< w.ret.rows, w.ret.cols >>),
                              !.fn = "stddim_yx"]
    /\ UNCHANGED << builderVars, alignVars, orderVars, inp >>

NextDim ==
    \/ Resize
    \/ NotcursesTermDimYx
    \/ NotcursesStddimYx

SpecDim == Init /\ [][NextDim]_vars

(***************************************************************************)
(* C15: a dimension query writes the rows and cols the standard plane has  *)
(* when it is called, whatever resizes and queries went before, and        *)
(* notcurses_term_dim_yx leaves the standard plane as it was.              *)
(***************************************************************************)
C15_NeverStale ==
    [][ /\ dim'.fn \in {"term_dim_yx", "stddim_yx"} =>
              /\ dim'.y = dim.rows
              /\ dim'.x = dim.cols
        /\ dim'.fn = "term_dim_yx" =>
              /\ dim'.rows = dim.rows
              /\ dim'.cols = dim.cols
              /\ dim'.ret = dim.ret ]_vars

\* queried right after a resize to 2 rows of 3 columns, with the 3 rows of 1
\* column of before the resize still in what stddim_yx returned
C15_Witness ==
    /\ dim.fn = "term_dim_yx"
    /\ dim.rows = 2 /\ dim.cols = 3
    /\ dim.y = 2 /\ dim.x = 3
    /\ dim.ret = Some(<< 3, 1 >>)

====
